---- MODULE Spec2Model ----
(***************************************************************************)
(* YTelegraph: the Markdown-to-Telegraph-DOM projection of                 *)
(* ytelegraph/md_to_dom.py.  md_to_dom parses Markdown with mistletoe and  *)
(* hands the Document token to TelegraphDomRenderer, whose render_* rules  *)
(* build a list of Python dicts / strings.  Python values are modelled as  *)
(* records tagged by their Python type, so that a str, a list and a dict   *)
(* stay distinguishable, and a dict keeps exactly the keys the code sets.  *)
(* Spec is the md_to_dom call; SpecApi is a client of TelegraphAPI         *)
(* (ytelegraph/api.py, account.py) calling its methods on one page.        *)
(***************************************************************************)
EXTENDS Integers, Sequences, FiniteSets, TLC

VARIABLES ast, dom, pc, page, cl, access_token, token_file, issued, ops

vars == <<ast, dom, pc, page, cl, access_token, token_file, issued, ops>>

\* the state of TelegraphAPI / TelegraphAccount and of the Telegraph server
apiVars == <<page, cl, access_token, token_file, issued, ops>>

(***************************************************************************)
(* Python values                                                           *)
(***************************************************************************)
PyNone == [py |-> "NoneType"]

PyStr(s) == [py |-> "str", s |-> s]

PyInt(n) == [py |-> "int", n |-> n]

PyBool(b) == [py |-> "bool", b |-> b]

PyList(items) == [py |-> "list", items |-> items]

PyDict(d) == [py |-> "dict", d |-> d]

PyRaise(name) == [py |-> "exception", name |-> name]

IsRaise(v) == v.py = "exception"

\* isinstance(rendered, list)
isinstance_list(v) == v.py = "list"

\* Python truth value, as tested by `if x:`
Truthy(v) ==
    CASE v.py = "NoneType" -> FALSE
      [] v.py = "str" -> v.s # ""
      [] v.py = "int" -> v.n # 0
      [] v.py = "bool" -> v.b
      [] v.py = "list" -> Len(v.items) > 0
      [] v.py = "dict" -> DOMAIN v.d # {}
      [] OTHER -> TRUE

\* d[key] = value on a dict: the key is added, or its value replaced
SetItem(d, key, value) ==
    [k \in (DOMAIN d) \cup {key} |-> IF k = key THEN value ELSE d[k]]

(***************************************************************************)
(* mistletoe tokens, as the fields the renderer reads.  Title and start    *)
(* are Python values (None, str, int).  HTMLBlock and HTMLSpan are the     *)
(* tokens render_html_block / render_html_span are written for; the parser *)
(* emits them when its HTML tokens are enabled.                            *)
(***************************************************************************)
RawText(content) == [type |-> "RawText", content |-> content]

EscapeSequence(char) == [type |-> "EscapeSequence", children |-> <<RawText(char)>>]

InlineCode(content) == [type |-> "InlineCode", children |-> <<RawText(content)>>]

AutoLink(target) == [type |-> "AutoLink", target |-> target, children |-> <<RawText(target)>>]

LineBreak(soft) == [type |-> "LineBreak", soft |-> soft]

HTMLSpan(content) == [type |-> "HTMLSpan", content |-> content]

Strong(children) == [type |-> "Strong", children |-> children]

Emphasis(children) == [type |-> "Emphasis", children |-> children]

Strikethrough(children) == [type |-> "Strikethrough", children |-> children]

Link(target, title, children) ==
    [type |-> "Link", target |-> target, title |-> title, children |-> children]

Image(src, title, children) ==
    [type |-> "Image", src |-> src, title |-> title, children |-> children]

Paragraph(children) == [type |-> "Paragraph", children |-> children]

Heading(level, children) == [type |-> "Heading", level |-> level, children |-> children]

SetextHeading(level, children) ==
    [type |-> "SetextHeading", level |-> level, children |-> children]

Quote(children) == [type |-> "Quote", children |-> children]

ListItem(children) == [type |-> "ListItem", children |-> children]

ListToken(start, children) == [type |-> "List", start |-> start, children |-> children]

BlockCode(content) ==
    [type |-> "BlockCode", language |-> "", children |-> <<RawText(content)>>]

CodeFence(language, content) ==
    [type |-> "CodeFence", language |-> language, children |-> <<RawText(content)>>]

ThematicBreak == [type |-> "ThematicBreak"]

HTMLBlock(content) == [type |-> "HTMLBlock", content |-> content]

TableCell(children) == [type |-> "TableCell", children |-> children]

TableRow(children) == [type |-> "TableRow", children |-> children]

Table(children) == [type |-> "Table", children |-> children]

Document(children) == [type |-> "Document", children |-> children]

\* token.content of a BlockCode / CodeFence: the text of its single RawText child
content_of(token) ==
    IF "content" \in DOMAIN token THEN token.content ELSE token.children[1].content

(***************************************************************************)
(* TelegraphDomRenderer                                                    *)
(***************************************************************************)
RECURSIVE render(_)

RECURSIVE render_each(_)

\* [self.render(child) for child in children]; an exception in a child propagates
render_each(children) ==
    IF children = <<>> THEN PyList(<<>>)
    ELSE LET rendered == render(Head(children))
             rest == render_each(Tail(children))
         IN IF IsRaise(rendered) THEN rendered
            ELSE IF IsRaise(rest) THEN rest
            ELSE PyList(<<rendered>> \o rest.items)

RECURSIVE render_inner_loop(_, _)

\* mutant: each child's result is put in front of the results so far
render_inner_loop_prepend(children, result) ==
    IF children = <<>> THEN PyList(result)
    ELSE LET rendered == render(Head(children))
         IN IF IsRaise(rendered) THEN rendered
            ELSE IF isinstance_list(rendered)
                 THEN render_inner_loop(Tail(children), rendered.items \o result)
                 ELSE render_inner_loop(Tail(children), <<rendered>> \o result)

\* the for loop of render_inner over the children not yet visited
render_inner_loop(children, result) ==
    IF children = <<>> THEN PyList(result)
    ELSE LET rendered == render(Head(children))
         IN IF IsRaise(rendered) THEN rendered
            ELSE IF isinstance_list(rendered)
                 THEN render_inner_loop(Tail(children), result \o rendered.items)
                 ELSE render_inner_loop(Tail(children), Append(result, rendered))

\* mutant: append every child result, a list included, without splicing it
render_inner_no_splice(token) == render_each(token.children)

render_inner(token) == render_inner_loop(token.children, <<>>)

render_document(token) == render_each(token.children)

render_paragraph(token) ==
    LET children == render_inner(token)
    IN IF IsRaise(children) THEN children
       ELSE PyDict([tag |-> PyStr("p"), children |-> children])

\* mutant: every heading keeps its own level, h<level>
render_heading_keep_level(token) ==
    LET children == render_inner(token)
        tags == <<"h1", "h2", "h3", "h4", "h5", "h6">>
    IN IF IsRaise(children) THEN children
       ELSE PyDict([tag |-> PyStr(tags[IF token.level <= 6 THEN token.level ELSE 6]),
                    children |-> children])

render_heading(token) ==
    LET children == render_inner(token)
    IN IF IsRaise(children) THEN children
       ELSE IF token.level = 1
            THEN PyDict([tag |-> PyStr("h3"), children |-> children])
       ELSE IF token.level = 2
            THEN PyDict([tag |-> PyStr("h4"), children |-> children])
       ELSE PyDict([tag |-> PyStr("p"),
                    children |-> PyList(<<PyDict([tag |-> PyStr("strong"),
                                                  children |-> children])>>)])

\* mutant: `if token.start` instead of `if token.start is not None`
render_list_truthy_start(token) ==
    LET tag == IF Truthy(token.start) THEN "ol" ELSE "ul"
        children == render_each(token.children)
    IN IF IsRaise(children) THEN children
       ELSE PyDict([tag |-> PyStr(tag), children |-> children])

render_list(token) ==
    LET tag == IF token.start # PyNone THEN "ol" ELSE "ul"
        children == render_each(token.children)
    IN IF IsRaise(children) THEN children
       ELSE PyDict([tag |-> PyStr(tag), children |-> children])

render_list_item(token) ==
    LET children == render_inner(token)
    IN IF IsRaise(children) THEN children
       ELSE PyDict([tag |-> PyStr("li"), children |-> children])

render_strong(token) ==
    LET children == render_inner(token)
    IN IF IsRaise(children) THEN children
       ELSE PyDict([tag |-> PyStr("strong"), children |-> children])

render_emphasis(token) ==
    LET children == render_inner(token)
    IN IF IsRaise(children) THEN children
       ELSE PyDict([tag |-> PyStr("em"), children |-> children])

render_inline_code(token) ==
    PyDict([tag |-> PyStr("code"),
            children |-> PyList(<<PyStr(IF Len(token.children) > 0
                                        THEN token.children[1].content
                                        ELSE token.content)>>)])

render_strikethrough(token) ==
    LET children == render_inner(token)
    IN IF IsRaise(children) THEN children
       ELSE PyDict([tag |-> PyStr("del"), children |-> children])

\* mutant: the image also carries its rendered children
render_image_with_children(token) ==
    LET alt_text == render_inner(token)
        attrs0 == [src |-> PyStr(token.src)]
        attrs1 == IF Truthy(alt_text) THEN SetItem(attrs0, "alt", alt_text) ELSE attrs0
        attrs2 == IF Truthy(token.title) THEN SetItem(attrs1, "title", token.title) ELSE attrs1
    IN IF IsRaise(alt_text) THEN alt_text
       ELSE PyDict([tag |-> PyStr("img"), attrs |-> PyDict(attrs2), children |-> alt_text])

render_image(token) ==
    LET alt_text == render_inner(token)
        attrs0 == [src |-> PyStr(token.src)]
        attrs1 == IF Truthy(alt_text) THEN SetItem(attrs0, "alt", alt_text) ELSE attrs0
        attrs2 == IF Truthy(token.title) THEN SetItem(attrs1, "title", token.title) ELSE attrs1
    IN IF IsRaise(alt_text) THEN alt_text
       ELSE PyDict([tag |-> PyStr("img"), attrs |-> PyDict(attrs2)])

\* mutant: the title is set whenever the token has one, `if token.title is not None`
render_link_title_not_none(token) ==
    LET attrs0 == [href |-> PyStr(token.target)]
        attrs1 == IF token.title # PyNone THEN SetItem(attrs0, "title", token.title) ELSE attrs0
        children == render_inner(token)
    IN IF IsRaise(children) THEN children
       ELSE PyDict([tag |-> PyStr("a"), attrs |-> PyDict(attrs1), children |-> children])

render_link(token) ==
    LET attrs0 == [href |-> PyStr(token.target)]
        attrs1 == IF Truthy(token.title) THEN SetItem(attrs0, "title", token.title) ELSE attrs0
        children == render_inner(token)
    IN IF IsRaise(children) THEN children
       ELSE PyDict([tag |-> PyStr("a"), attrs |-> PyDict(attrs1), children |-> children])

render_auto_link(token) ==
    PyDict([tag |-> PyStr("a"),
            attrs |-> PyDict([href |-> PyStr(token.target)]),
            children |-> PyList(<<PyStr(token.target)>>)])

render_raw_text(token) == PyStr(token.content)

render_line_break(token) ==
    IF token.soft THEN PyStr("\n") ELSE PyDict([tag |-> PyStr("br")])

\* mutant: the language class is put on the pre element
render_block_code_class_on_pre(token) ==
    LET code_dict == [tag |-> PyStr("code"), children |-> PyList(<<PyStr(content_of(token))>>)]
        pre == [tag |-> PyStr("pre"), children |-> PyList(<<PyDict(code_dict)>>)]
    IN IF Truthy(PyStr(token.language))
       THEN PyDict(SetItem(pre, "attrs",
                           PyDict([class |-> PyStr("language-" \o token.language)])))
       ELSE PyDict(pre)

\* mutant: the class is set without the `if token.language` test
render_block_code_always_class(token) ==
    LET code_dict == [tag |-> PyStr("code"),
                      children |-> PyList(<<PyStr(content_of(token))>>),
                      attrs |-> PyDict([class |-> PyStr("language-" \o token.language)])]
    IN PyDict([tag |-> PyStr("pre"), children |-> PyList(<<PyDict(code_dict)>>)])

render_block_code(token) ==
    LET code_dict0 == [tag |-> PyStr("code"), children |-> PyList(<<PyStr(content_of(token))>>)]
        code_dict == IF Truthy(PyStr(token.language))
                     THEN SetItem(code_dict0, "attrs",
                                  PyDict([class |-> PyStr("language-" \o token.language)]))
                     ELSE code_dict0
    IN PyDict([tag |-> PyStr("pre"), children |-> PyList(<<PyDict(code_dict)>>)])

render_quote(token) ==
    LET children == render_inner(token)
    IN IF IsRaise(children) THEN children
       ELSE PyDict([tag |-> PyStr("blockquote"), children |-> children])

render_thematic_break(token) == PyDict([tag |-> PyStr("hr")])

render_html_block(token) == PyStr(token.content)

render_html_span(token) == PyStr(token.content)

\* the token kinds of the base renderer's render_map for which the class
\* defines no render_* method: the base class resolves them to render_inner
FallbackKinds == {"EscapeSequence", "Table", "TableRow", "TableCell"}

\* BaseRenderer.render: dispatch on the token's class name
render(token) ==
    CASE token.type = "Document" -> render_document(token)
      [] token.type = "Paragraph" -> render_paragraph(token)
      [] token.type \in {"Heading", "SetextHeading"} -> render_heading(token)
      [] token.type = "List" -> render_list(token)
      [] token.type = "ListItem" -> render_list_item(token)
      [] token.type = "Strong" -> render_strong(token)
      [] token.type = "Emphasis" -> render_emphasis(token)
      [] token.type = "InlineCode" -> render_inline_code(token)
      [] token.type = "Strikethrough" -> render_strikethrough(token)
      [] token.type = "Image" -> render_image(token)
      [] token.type = "Link" -> render_link(token)
      [] token.type = "AutoLink" -> render_auto_link(token)
      [] token.type = "RawText" -> render_raw_text(token)
      [] token.type = "LineBreak" -> render_line_break(token)
      [] token.type \in {"BlockCode", "CodeFence"} -> render_block_code(token)
      [] token.type = "Quote" -> render_quote(token)
      [] token.type = "ThematicBreak" -> render_thematic_break(token)
      [] token.type = "HTMLBlock" -> render_html_block(token)
      [] token.type = "HTMLSpan" -> render_html_span(token)
      [] token.type \in FallbackKinds -> render_inner(token)
      [] OTHER -> PyRaise("KeyError")

(***************************************************************************)
(* The inputs: the Document tokens md_to_dom's parser hands to the         *)
(* renderer, up to the bounds below                                        *)
(***************************************************************************)
\* nesting depth of composite inline tokens (Strong, Link, Image, ...)
SpanDepth == 2

\* number of sibling inline tokens under one block
MaxSpans == 2

\* heading levels 1..MaxLevel
MaxLevel == 6

\* nesting depth of block containers (Quote, List, ListItem)
BlockDepth == 2

\* number of items of a list
MaxItems == 2

\* start numbers 0..MaxStart of an ordered list
MaxStart == 1

\* number of sibling blocks under the Document
MaxBlocks == 2

Texts == {"a"}

Urls == {"u"}

HtmlTexts == {"<hr>", " "}

\* the texts of the model's alphabet for which str.isspace() is true
WhitespaceTexts == {" ", "\n"}

Languages == {"", "py"}

Titles == {PyNone, PyStr(""), PyStr("T")}

Starts == {PyNone} \cup {PyInt(n) : n \in 0..MaxStart}

SeqsUpTo(S, n) == UNION {[1..k -> S] : k \in 0..n}

Opt(S) == {<<>>} \cup {<<x>> : x \in S}

SpanLeaf ==
    {RawText(t) : t \in Texts} \cup {InlineCode(t) : t \in Texts}
    \cup {AutoLink(u) : u \in Urls} \cup {LineBreak(b) : b \in BOOLEAN}
    \cup {HTMLSpan("<i>"), EscapeSequence("*")}

RECURSIVE Spans(_)

Spans(d) ==
    IF d = 0 THEN SpanLeaf
    ELSE LET inner == Opt(Spans(d - 1))
         IN SpanLeaf
            \cup {Strong(s) : s \in inner} \cup {Emphasis(s) : s \in inner}
            \cup {Strikethrough(s) : s \in inner}
            \cup {Link(u, t, s) : u \in Urls, t \in Titles, s \in inner}
            \cup {Image(u, t, s) : u \in Urls, t \in Titles, s \in inner}

InlineSeqs == Opt(Spans(SpanDepth)) \cup SeqsUpTo(SpanLeaf, MaxSpans)

HeadingSeqs == Opt(Spans(1)) \cup SeqsUpTo(SpanLeaf, MaxSpans)

Tables ==
    {Table(<<TableRow(<<TableCell(s)>>)>>) : s \in Opt(Spans(1))}
    \cup {Table(<<TableRow(<<TableCell(<<x>>), TableCell(<<y>>)>>)>>) : x, y \in SpanLeaf}

InlineBlocks ==
    {Paragraph(s) : s \in InlineSeqs}
    \cup {Heading(l, s) : l \in 1..MaxLevel, s \in HeadingSeqs}
    \cup {SetextHeading(l, s) : l \in 1..2, s \in Opt(SpanLeaf)}
    \cup Tables

LeafBlocks ==
    {ThematicBreak, Paragraph(<<RawText("a")>>),
     Paragraph(<<Strikethrough(<<RawText("a")>>)>>),
     Heading(3, <<RawText("a")>>), Table(<<TableRow(<<TableCell(<<RawText("a")>>)>>)>>)}
    \cup {BlockCode(t) : t \in Texts}
    \cup {CodeFence(l, t) : l \in Languages, t \in Texts}
    \cup {HTMLBlock(t) : t \in HtmlTexts}

SmallItems ==
    {ListItem(<<>>), ListItem(<<Paragraph(<<RawText("a")>>)>>), ListItem(<<ThematicBreak>>)}

RECURSIVE Nest(_)

Nest(d) ==
    IF d = 0 THEN LeafBlocks
    ELSE LET inner == Opt(Nest(d - 1))
             items == {<<ListItem(s)>> : s \in inner}
                      \cup (SeqsUpTo(SmallItems, MaxItems) \ {<<>>})
         IN LeafBlocks \cup {Quote(s) : s \in inner}
            \cup {ListToken(st, its) : st \in Starts, its \in items}

Documents ==
    {Document(s) : s \in Opt(InlineBlocks \cup Nest(BlockDepth))
                         \cup SeqsUpTo(LeafBlocks, MaxBlocks)}

(***************************************************************************)
(* TelegraphAPI (ytelegraph/api.py) and the Telegraph server it talks to.  *)
(* One page lives on the server.  A client runs one method at a time; a    *)
(* method is a sequence of steps, one per HTTP request (and one per sleep  *)
(* of get_page), so that requests of different clients can interleave.     *)
(* Every path argument is a valid path of the page.                        *)
(***************************************************************************)
\* number of methods called in one behaviour
MaxOps == 2

\* max_retries arguments 0..MaxRetries of a direct get_page call
MaxRetries == 2

\* get_page's default: max_retries: int = 3
DefaultMaxRetries == 3

Clients == {"c1", "c2"}

\* the outcomes of one _make_request: the result, a RequestException
\* (connection or HTTP status), or an Exception for an {"ok": false} response
Outcomes == {"ok", "RequestException", "APIError"}

\* str(e) of the exception _make_request raises
ErrorMessage(outcome) ==
    IF outcome = "RequestException" THEN "HTTP error" ELSE "API error: PAGE_NOT_FOUND"

\* json.dumps(content): the JSON text of a value
json_dumps(v) == [py |-> "str", json |-> v]

\* the server's parse of a JSON text
json_loads(text) == text.json

\* a + b on lists
list_add(a, b) == PyList(a.items \o b.items)

\* d.get(key, default)
dict_get(d, key, default) == IF key \in DOMAIN d.d THEN d.d[key] ELSE default

Token(n) == PyStr("token" \o ToString(n))

\* the Markdown inputs of the *_md methods, as the parser's Document
MdInputs ==
    {Document(<<Paragraph(<<RawText("a")>>)>>),
     Document(<<Heading(1, <<RawText("a")>>), Paragraph(<<RawText("a")>>)>>)}

\* title arguments
TitleArgs == {PyNone, PyStr(""), PyStr("New title")}

\* md_to_dom(text), for the text the Document was parsed from
MdToDom(document) == render(document)

InitialPage ==
    [title |-> PyStr("Title"),
     content |-> PyList(<<PyDict([tag |-> PyStr("p"), children |-> PyList(<<PyStr("old")>>)])>>)]

\* a client that runs no method: the fields are the locals of the methods
ClientIdle ==
    [pc |-> "idle", op |-> "none", md |-> PyNone, title |-> PyNone, content |-> PyNone,
     cont |-> "none", retry |-> TRUE, max_retries |-> 0, return_content |-> TRUE,
     attempt |-> 0, result |-> PyNone, log |-> <<>>, args |-> PyNone, sent |-> PyNone,
     before |-> PyNone, outcome |-> "none", ret |-> PyNone]

ClientOff == [ClientIdle EXCEPT !.pc = "off"]

\* no API call is made
ApiAtRest ==
    /\ page = InitialPage
    /\ cl = [c \in Clients |-> ClientOff]
    /\ access_token = Token(0)
    /\ token_file = Token(0)
    /\ issued = 0
    /\ ops = 0

\* getPage on the server
server_get_page(pg, return_content) ==
    IF return_content
    THEN PyDict([path |-> PyStr("path"), title |-> pg.title, content |-> pg.content])
    ELSE PyDict([path |-> PyStr("path"), title |-> pg.title])

\* editPage on the server: the title is required
server_accepts_edit(data) == "title" \in DOMAIN data.d /\ Truthy(data.d.title)

server_edit_page(pg, data) ==
    [title |-> data.d.title, content |-> json_loads(data.d.content)]

\* the tokens of "# Error\n\nFailed to retrieve page after N attempts.\n\nError: E"
ErrorDocument(attempts, error) ==
    Document(<<Heading(1, <<RawText("Error")>>),
               Paragraph(<<RawText("Failed to retrieve page after "
                                   \o ToString(attempts.n) \o " attempts.")>>),
               Paragraph(<<RawText("Error: " \o error.s)>>)>>)

\* get_page, lines 350-362: the request data and the initial result
enter_get_page(s, cont, retry, max_retries, return_content) ==
    [s EXCEPT !.pc = "get_page", !.cont = cont, !.retry = retry,
              !.max_retries = max_retries, !.return_content = return_content,
              !.attempt = 0, !.log = <<>>,
              !.result = PyDict([success |-> PyBool(FALSE), title |-> PyNone,
                                 content |-> PyList(<<>>), error |-> PyNone,
                                 attempts |-> PyInt(0)])]

\* mutant: `attempt < max_retries and retry`: a sleep follows the last attempt too
get_page_attempt_sleep_after_last(s, outcome, pg) ==
    LET counted == SetItem(s.result.d, "attempts", PyInt(s.result.d.attempts.n + 1))
        logged == Append(s.log, outcome)
    IN IF outcome = "ok"
       THEN LET api_result == server_get_page(pg, s.return_content)
                r1 == SetItem(counted, "success", PyBool(TRUE))
                r2 == SetItem(r1, "content", dict_get(api_result, "content", PyList(<<>>)))
                r3 == SetItem(r2, "title", dict_get(api_result, "title", PyNone))
            IN [s EXCEPT !.result = PyDict(r3), !.log = logged, !.pc = "get_page_return"]
       ELSE [s EXCEPT !.result = PyDict(SetItem(counted, "error", PyStr(ErrorMessage(outcome)))),
                      !.log = logged, !.pc = "get_page_sleep"]

\* one iteration of get_page's loop, up to its sleep or its return, lines 365-380: a request and its handling
get_page_attempt(s, outcome, pg) ==
    LET counted == SetItem(s.result.d, "attempts", PyInt(s.result.d.attempts.n + 1))
        logged == Append(s.log, outcome)
    IN IF outcome = "ok"
       THEN LET api_result == server_get_page(pg, s.return_content)
                r1 == SetItem(counted, "success", PyBool(TRUE))
                r2 == SetItem(r1, "content", dict_get(api_result, "content", PyList(<<>>)))
                r3 == SetItem(r2, "title", dict_get(api_result, "title", PyNone))
            IN [s EXCEPT !.result = PyDict(r3), !.log = logged, !.pc = "get_page_return"]
       ELSE LET failed == SetItem(counted, "error", PyStr(ErrorMessage(outcome)))
            IN IF s.attempt < s.max_retries - 1 /\ s.retry
               THEN [s EXCEPT !.result = PyDict(failed), !.log = logged,
                              !.pc = "get_page_sleep"]
               ELSE [s EXCEPT !.result =
                                  PyDict(SetItem(failed, "content",
                                                 MdToDom(ErrorDocument(failed.attempts,
                                                                       failed.error)))),
                              !.log = logged, !.pc = "get_page_return"]

\* range(max_retries if retry else 1)
attempts_range(s) == IF s.retry THEN s.max_retries ELSE 1

\* time.sleep(retry_delay), then the next iteration
get_page_sleep(s) ==
    [s EXCEPT !.log = Append(s.log, "sleep"), !.attempt = s.attempt + 1, !.pc = "get_page"]

\* the method returns (or raises) `value` to the user
returns(s, value) == [s EXCEPT !.pc = "returned", !.ret = value]

\* edit_page, lines 192-194: the title lookup when no title is given
edit_page_entry(s) ==
    IF ~Truthy(s.title)
    THEN enter_get_page(s, "edit_title", TRUE, DefaultMaxRetries, TRUE)
    ELSE [s EXCEPT !.pc = "edit_request"]

\* what the caller of get_page does with its result
get_page_return(s) ==
    CASE s.cont = "top" -> returns(s, s.result)
      [] s.cont = "append_to_front" ->
            edit_page_entry([s EXCEPT !.content =
                                 list_add(MdToDom(s.md), s.result.d.content)])
      [] s.cont = "append_to_back" ->
            edit_page_entry([s EXCEPT !.content =
                                 list_add(s.result.d.content, MdToDom(s.md))])
      [] s.cont = "edit_title" -> [s EXCEPT !.title = s.result.d.title, !.pc = "edit_request"]
      [] s.cont = "delete_verify" ->
            returns(s, PyBool(s.result = PyList(<<PyDict([tag |-> PyStr("p"),
                          children |-> PyList(<<PyStr("This page has been deleted.")>>)])>>)))

\* the caller goes on when get_page has returned
resume(s) == IF s.pc = "get_page_return" THEN get_page_return(s) ELSE s

\* edit_page, lines 195-203: the data of the editPage request
edit_page_data(s, token) ==
    PyDict([access_token |-> token, path |-> PyStr("path"), title |-> s.title,
            content |-> json_dumps(s.content), return_content |-> PyBool(FALSE),
            author_name |-> PyStr("Anonymous"), author_url |-> PyNone])

\* delete_page, lines 306-314
expected_content ==
    PyList(<<PyDict([tag |-> PyStr("p"),
                     children |-> PyList(<<PyStr("This page has been deleted.")>>)])>>)

delete_page_data(token) ==
    PyDict([access_token |-> token, path |-> PyStr("path"), title |-> PyStr("404"),
            content |-> json_dumps(expected_content), author_name |-> PyStr("Deleted"),
            author_url |-> PyNone])

\* get_views, lines 446-454: the data of the getViews request
get_views_data(year, month, day, hour) ==
    LET d0 == [path |-> PyStr("path")]
        d1 == IF Truthy(year) THEN SetItem(d0, "year", year) ELSE d0
        d2 == IF Truthy(month) /\ Truthy(year) THEN SetItem(d1, "month", month) ELSE d1
        d3 == IF Truthy(day) /\ Truthy(month) /\ Truthy(year)
              THEN SetItem(d2, "day", day) ELSE d2
        d4 == IF Truthy(hour) /\ Truthy(day) /\ Truthy(month) /\ Truthy(year)
              THEN SetItem(d3, "hour", hour) ELSE d3
    IN PyDict(d4)

(***************************************************************************)
(* md_to_dom                                                               *)
(***************************************************************************)
Init ==
    /\ ast \in Documents
    /\ dom = PyNone
    /\ pc = "call"
    /\ ApiAtRest

\* renderer.render(Document(markdown_text)), returned to the caller
md_to_dom ==
    /\ pc = "call"
    /\ dom' = render(ast)
    /\ pc' = "return"
    /\ UNCHANGED <<ast, apiVars>>

Next == md_to_dom

Spec == Init /\ [][Next]_vars

(***************************************************************************)
(* The API calls of a client.  ops counts the methods called; a step is a  *)
(* method up to and including its next HTTP request or sleep.              *)
(***************************************************************************)
InitApi ==
    /\ ast = Document(<<>>)
    /\ dom = PyNone
    /\ pc = "api"
    /\ page = InitialPage
    /\ cl = [c \in Clients |-> IF c = "c1" THEN ClientIdle ELSE ClientOff]
    /\ access_token = Token(0)
    /\ token_file = Token(0)
    /\ issued = 0
    /\ ops = 0

\* the client can call a method
idle(c) == pc = "api" /\ cl[c].pc = "idle" /\ ops < MaxOps

\* what _make_request gives: the server answers {"ok": false} to a request
\* it does not accept
response(outcome, accepted) ==
    IF outcome = "ok" /\ ~accepted THEN "APIError" ELSE outcome

\* the exception _make_request raises
raised(outcome) ==
    PyRaise(IF outcome = "RequestException" THEN "RequestException" ELSE "Exception")

\* api.get_page(path, return_content, retry, max_retries)
call_get_page(c) ==
    /\ idle(c)
    /\ \E retry \in BOOLEAN, max_retries \in 0..MaxRetries, return_content \in BOOLEAN :
          cl' = [cl EXCEPT ![c] =
                    enter_get_page([ClientIdle EXCEPT !.op = "get_page"],
                                   "top", retry, max_retries, return_content)]
    /\ ops' = ops + 1
    /\ UNCHANGED <<ast, dom, pc, page, access_token, token_file, issued>>

\* api.edit_page_md(path, content, title)
call_edit_page_md(c) ==
    /\ idle(c)
    /\ \E md \in MdInputs, title \in TitleArgs :
          cl' = [cl EXCEPT ![c] =
                    edit_page_entry([ClientIdle EXCEPT !.op = "edit_page_md", !.md = md,
                                         !.args = PyDict([title |-> title]),
                                         !.title = title, !.content = MdToDom(md)])]
    /\ ops' = ops + 1
    /\ UNCHANGED <<ast, dom, pc, page, access_token, token_file, issued>>

\* edit_page_md_append_to_front / _back up to the call of get_page, lines 259, 287
begin_append(c, op, md, title) ==
    /\ idle(c)
    /\ cl' = [cl EXCEPT ![c] =
                 enter_get_page([ClientIdle EXCEPT !.op = op, !.md = md, !.title = title,
                                                   !.args = PyDict([title |-> title])],
                                op, TRUE, DefaultMaxRetries, TRUE)]
    /\ ops' = ops + 1
    /\ UNCHANGED <<ast, dom, pc, page, access_token, token_file, issued>>

\* api.edit_page_md_append_to_front / _back(path, content, title)
call_append(c) ==
    \E op \in {"append_to_front", "append_to_back"}, md \in MdInputs, title \in TitleArgs :
        begin_append(c, op, md, title)

\* api.delete_page(path)
call_delete_page(c) ==
    /\ idle(c)
    /\ cl' = [cl EXCEPT ![c] = [ClientIdle EXCEPT !.op = "delete_page",
                                                  !.pc = "delete_request"]]
    /\ ops' = ops + 1
    /\ UNCHANGED <<ast, dom, pc, page, access_token, token_file, issued>>

\* get_page: the next iteration of the loop, with its getPage request
get_page_request(c) ==
    /\ pc = "api"
    /\ cl[c].pc = "get_page"
    /\ cl[c].attempt < attempts_range(cl[c])
    /\ \E outcome \in Outcomes :
          cl' = [cl EXCEPT ![c] = resume(get_page_attempt(cl[c], outcome, page))]
    /\ UNCHANGED <<ast, dom, pc, page, access_token, token_file, issued, ops>>

\* get_page: the loop is over, line 382
get_page_exhausted(c) ==
    /\ pc = "api"
    /\ cl[c].pc = "get_page"
    /\ cl[c].attempt >= attempts_range(cl[c])
    /\ cl' = [cl EXCEPT ![c] = get_page_return(cl[c])]
    /\ UNCHANGED <<ast, dom, pc, page, access_token, token_file, issued, ops>>

\* get_page: time.sleep(retry_delay)
get_page_wait(c) ==
    /\ pc = "api"
    /\ cl[c].pc = "get_page_sleep"
    /\ cl' = [cl EXCEPT ![c] = get_page_sleep(cl[c])]
    /\ UNCHANGED <<ast, dom, pc, page, access_token, token_file, issued, ops>>

\* edit_page, lines 195-205: the editPage request
edit_request(c) ==
    /\ pc = "api"
    /\ cl[c].pc = "edit_request"
    /\ \E outcome \in Outcomes :
          LET data == edit_page_data(cl[c], access_token)
              got == response(outcome, server_accepts_edit(data))
              s == [cl[c] EXCEPT !.sent = data, !.before = page, !.outcome = got]
          IN /\ page' = IF got = "ok" THEN server_edit_page(page, data) ELSE page
             /\ cl' = [cl EXCEPT ![c] =
                          returns(s, IF got = "ok" THEN PyStr("url") ELSE raised(got))]
    /\ UNCHANGED <<ast, dom, pc, access_token, token_file, issued, ops>>

\* delete_page, lines 315-317: the editPage request, then the read back
delete_request(c) ==
    /\ pc = "api"
    /\ cl[c].pc = "delete_request"
    /\ \E outcome \in Outcomes :
          LET data == delete_page_data(access_token)
              got == response(outcome, server_accepts_edit(data))
              s == [cl[c] EXCEPT !.sent = data, !.before = page, !.outcome = got]
          IN /\ page' = IF got = "ok" THEN server_edit_page(page, data) ELSE page
             /\ cl' = [cl EXCEPT ![c] =
                          IF got = "ok"
                          THEN enter_get_page(s, "delete_verify", TRUE, DefaultMaxRetries, TRUE)
                          ELSE returns(s, raised(got))]
    /\ UNCHANGED <<ast, dom, pc, access_token, token_file, issued, ops>>

\* api.get_views(path, year, month, day, hour)
get_views(c) ==
    /\ idle(c)
    /\ \E year \in {PyNone, PyInt(2024)}, month \in {PyNone, PyInt(1)},
          day \in {PyNone, PyInt(1)}, hour \in {PyNone} \cup {PyInt(h) : h \in 0..23},
          outcome \in Outcomes :
          LET s == [ClientIdle EXCEPT
                        !.op = "get_views",
                        !.args = PyDict([year |-> year, month |-> month,
                                         day |-> day, hour |-> hour]),
                        !.sent = get_views_data(year, month, day, hour),
                        !.outcome = outcome]
          IN cl' = [cl EXCEPT ![c] =
                       returns(s, IF outcome = "ok"
                                  THEN PyDict([views |-> PyInt(42)])
                                  ELSE raised(outcome))]
    /\ ops' = ops + 1
    /\ UNCHANGED <<ast, dom, pc, page, access_token, token_file, issued>>

\* account.revoke_access_token(), reached through api.revoke_access_token().
\* "no_result": a response with status 200 and no "result" (an {"ok": false}
\* answer), on which response.json()["result"] raises KeyError
revoke_access_token(c) ==
    /\ idle(c)
    /\ \E outcome \in {"ok", "RequestException", "no_result"} :
          LET s == [ClientIdle EXCEPT
                        !.op = "revoke_access_token",
                        !.sent = PyDict([access_token |-> access_token]),
                        !.before = PyDict([access_token |-> access_token,
                                           token_file |-> token_file]),
                        !.outcome = outcome]
              new_token == Token(issued + 1)
          IN CASE outcome = "ok" ->
                    /\ issued' = issued + 1
                    /\ token_file' = new_token
                    /\ access_token' = new_token
                    /\ cl' = [cl EXCEPT ![c] = returns(s, PyBool(TRUE))]
               [] outcome = "RequestException" ->
                    /\ UNCHANGED <<issued, token_file, access_token>>
                    /\ cl' = [cl EXCEPT ![c] = returns(s, PyBool(FALSE))]
               [] outcome = "no_result" ->
                    /\ token_file' = PyNone
                    /\ UNCHANGED <<issued, access_token>>
                    /\ cl' = [cl EXCEPT ![c] = returns(s, PyRaise("KeyError"))]
    /\ ops' = ops + 1
    /\ UNCHANGED <<ast, dom, pc, page>>

\* the user has the method's result; its locals are gone
finish(c) ==
    /\ pc = "api"
    /\ cl[c].pc = "returned"
    /\ cl' = [cl EXCEPT ![c] = ClientIdle]
    /\ UNCHANGED <<ast, dom, pc, page, access_token, token_file, issued, ops>>

NextApi ==
    \E c \in Clients :
        \/ call_get_page(c)
        \/ call_edit_page_md(c)
        \/ call_append(c)
        \/ call_delete_page(c)
        \/ get_page_request(c)
        \/ get_page_exhausted(c)
        \/ get_page_wait(c)
        \/ edit_request(c)
        \/ delete_request(c)
        \/ get_views(c)
        \/ revoke_access_token(c)
        \/ finish(c)

SpecApi == InitApi /\ [][NextApi]_vars

(***************************************************************************)
(* Two clients appending to the same page.  Each calls one append method;  *)
(* their getPage and editPage requests interleave freely.  get_page is     *)
(* called with its default max_retries, so its loop always returns from    *)
(* within an iteration.                                                    *)
(***************************************************************************)
InitAppend ==
    /\ ast = Document(<<>>)
    /\ dom = PyNone
    /\ pc = "api"
    /\ page = InitialPage
    /\ cl = [c \in Clients |-> ClientIdle]
    /\ access_token = Token(0)
    /\ token_file = Token(0)
    /\ issued = 0
    /\ ops = 0

\* the Markdown each client appends
Fragment(c) ==
    IF c = "c1" THEN Document(<<Paragraph(<<RawText("a")>>)>>)
    ELSE Document(<<Heading(1, <<RawText("a")>>), Paragraph(<<RawText("a")>>)>>)

\* a client appends its fragment, with or without a title
call_append_fragment(c) ==
    \E op \in {"append_to_front", "append_to_back"}, title \in {PyNone, PyStr("New title")} :
        begin_append(c, op, Fragment(c), title)

NextAppend ==
    \E c \in Clients :
        \/ call_append_fragment(c)
        \/ get_page_request(c)
        \/ get_page_wait(c)
        \/ edit_request(c)

SpecAppend == InitAppend /\ [][NextAppend]_vars

(***************************************************************************)
(* Reading the result                                                      *)
(***************************************************************************)
Returned == pc = "return"

RECURSIVE Subvalues(_)

\* every Python value of a result, at every depth: list entries, dict values
Subvalues(v) ==
    {v} \cup
    CASE v.py = "list" -> UNION {Subvalues(v.items[i]) : i \in DOMAIN v.items}
      [] v.py = "dict" -> UNION {Subvalues(v.d[k]) : k \in DOMAIN v.d}
      [] OTHER -> {}

IsElement(v) == v.py = "dict" /\ "tag" \in DOMAIN v.d

Elements(v) == {e \in Subvalues(v) : IsElement(e)}

Tag(e) == e.d.tag.s

HasKey(e, key) == key \in DOMAIN e.d

AttrKeys(e) == DOMAIN e.d.attrs.d

\* the elements of a result that have tag `tag`
Tagged(v, tag) == {e \in Elements(v) : Tag(e) = tag}

\* {tag, children}
Elem(tag, children) == PyDict([tag |-> PyStr(tag), children |-> children])

\* the positions of the Document's children of the given kinds
TopLevel(kinds) == {i \in DOMAIN ast.children : ast.children[i].type \in kinds}

AllowedTags ==
    {"a", "aside", "b", "blockquote", "br", "code", "em", "figcaption", "figure",
     "h3", "h4", "hr", "i", "iframe", "img", "li", "ol", "p", "pre", "s", "strong",
     "u", "ul", "video"}

(***************************************************************************)
(* Claims                                                                  *)
(***************************************************************************)

\* C1: every element, at every depth of the tree md_to_dom returns, has a tag
\* of the whitelist (a Strikethrough included).
C1_WhitelistClosure ==
    Returned => \A e \in Elements(dom) : Tag(e) \in AllowedTags

\* C2: a Heading of level 1 becomes h3 over the projected children, level 2
\* becomes h4, every other level becomes p over one strong over the projected
\* children; no h1, h2, h5 or h6 element is in the output.
C2_HeadingDemotion ==
    Returned =>
        /\ \A i \in TopLevel({"Heading", "SetextHeading"}) :
              LET token == ast.children[i]
                  projected == render_inner(token)
              IN dom.items[i] =
                    IF token.level = 1 THEN Elem("h3", projected)
                    ELSE IF token.level = 2 THEN Elem("h4", projected)
                    ELSE Elem("p", PyList(<<Elem("strong", projected)>>))
        /\ \A e \in Elements(dom) : Tag(e) \notin {"h1", "h2", "h5", "h6"}

\* C2 witness: a heading of level 3 or more with content was demoted to p/strong
C2_Witness ==
    /\ Returned
    /\ \E i \in TopLevel({"Heading"}) :
          /\ ast.children[i].level >= 3
          /\ ast.children[i].children # <<>>
          /\ Tag(dom.items[i]) = "p"
          /\ Tag(dom.items[i].d.children.items[1]) = "strong"

\* C3: an img element's alt attribute is the alt text as one string, and every
\* attribute value of the output is a string.
C3_ImageAltIsText ==
    Returned =>
        /\ \A e \in Elements(dom) :
              HasKey(e, "attrs") => \A k \in AttrKeys(e) : e.d.attrs.d[k].py = "str"
        /\ \A i \in TopLevel({"Paragraph"}) :
              LET spans == ast.children[i].children
              IN (/\ Len(spans) = 1
                  /\ spans[1].type = "Image"
                  /\ Len(spans[1].children) = 1
                  /\ spans[1].children[1].type = "RawText")
                 => dom.items[i].d.children.items[1].d.attrs.d.alt
                       = PyStr(spans[1].children[1].content)

\* the entries of an element's children sequence
ChildEntries(e) ==
    IF HasKey(e, "children") /\ e.d.children.py = "list"
    THEN {e.d.children.items[i] : i \in DOMAIN e.d.children.items}
    ELSE {}

\* C4: img carries attrs with src and at most alt, title; a carries attrs with
\* href and at most title; br and hr carry no attrs; any other element that
\* carries attrs is a code element with the single key class, child of a pre.
C4_AttributeRestriction ==
    Returned =>
        \A e \in Elements(dom) :
            /\ Tag(e) = "img" =>
                  /\ HasKey(e, "attrs")
                  /\ "src" \in AttrKeys(e)
                  /\ AttrKeys(e) \subseteq {"src", "alt", "title"}
            /\ Tag(e) = "a" =>
                  /\ HasKey(e, "attrs")
                  /\ "href" \in AttrKeys(e)
                  /\ AttrKeys(e) \subseteq {"href", "title"}
            /\ Tag(e) \in {"br", "hr"} => ~HasKey(e, "attrs")
            /\ (HasKey(e, "attrs") /\ Tag(e) \notin {"img", "a"}) =>
                  /\ Tag(e) = "code"
                  /\ AttrKeys(e) = {"class"}
                  /\ \E pre \in Tagged(dom, "pre") : e \in ChildEntries(pre)

\* C4 witness: an img with src, alt and title was returned
C4_Witness ==
    /\ Returned
    /\ \E e \in Tagged(dom, "img") : AttrKeys(e) = {"src", "alt", "title"}

\* C5: img, br and hr never have a children key (a hard LineBreak is exactly
\* {tag: br}, a ThematicBreak exactly {tag: hr}); every a element has a children
\* key, an empty sequence when the link has no content.
C5_ChildrenPresence ==
    Returned =>
        /\ \A e \in Elements(dom) :
              /\ Tag(e) \in {"img", "br", "hr"} => ~HasKey(e, "children")
              /\ Tag(e) \in {"br", "hr"} => DOMAIN e.d = {"tag"}
              /\ Tag(e) = "a" => HasKey(e, "children") /\ e.d.children.py = "list"
        /\ \A i \in TopLevel({"ThematicBreak"}) : dom.items[i] = PyDict([tag |-> PyStr("hr")])
        /\ \A i \in TopLevel({"Paragraph"}) :
              LET spans == ast.children[i].children
                  out == dom.items[i].d.children.items
              IN /\ (Len(spans) = 1 /\ spans[1] = LineBreak(FALSE))
                        => out = <<PyDict([tag |-> PyStr("br")])>>
                 /\ (Len(spans) = 1 /\ spans[1].type \in {"Link", "Image"})
                        => Len(out) = 1
                 /\ (Len(spans) = 1 /\ spans[1].type = "Link" /\ spans[1].children = <<>>)
                        => out[1].d.children = PyList(<<>>)

\* C5 witness: a link without content was rendered with an empty children list
C5_Witness ==
    /\ Returned
    /\ \E i \in TopLevel({"Paragraph"}) :
          /\ Len(ast.children[i].children) = 1
          /\ ast.children[i].children[1].type = "Link"
          /\ ast.children[i].children[1].children = <<>>
          /\ dom.items[i].d.children.items[1].d.children = PyList(<<>>)

\* C6: an ordered List becomes ol and an unordered List ul, whatever the start
\* number; the children are one li per ListItem, in order, each holding the
\* projection of that item's children.
C6_ListShape ==
    Returned =>
        \A i \in TopLevel({"List"}) :
            LET token == ast.children[i]
                out == dom.items[i]
            IN /\ IsElement(out)
               /\ DOMAIN out.d = {"tag", "children"}
               /\ Tag(out) = (IF token.start = PyNone THEN "ul" ELSE "ol")
               /\ out.d.children.py = "list"
               /\ Len(out.d.children.items) = Len(token.children)
               /\ \A j \in DOMAIN token.children :
                     out.d.children.items[j] = Elem("li", render_inner(token.children[j]))

\* C6 witness: an ordered list starting at 0 with two different items became an
\* ol of two li
C6_Witness ==
    /\ Returned
    /\ \E i \in TopLevel({"List"}) :
          /\ ast.children[i].start = PyInt(0)
          /\ Len(ast.children[i].children) = 2
          /\ ast.children[i].children[1] # ast.children[i].children[2]
          /\ Tag(dom.items[i]) = "ol"
          /\ Len(dom.items[i].d.children.items) = 2

\* C7: a BlockCode becomes a pre whose children is exactly one code whose
\* children is exactly one text leaf, the raw code; the code carries
\* attrs {class: "language-" + lang} iff the language is not empty; a pre never
\* carries attrs.
C7_CodeBlockProjection ==
    Returned =>
        /\ \A i \in TopLevel({"BlockCode", "CodeFence"}) :
              LET token == ast.children[i]
                  out == dom.items[i]
                  code == out.d.children.items[1]
              IN /\ IsElement(out)
                 /\ DOMAIN out.d = {"tag", "children"}
                 /\ Tag(out) = "pre"
                 /\ out.d.children.py = "list"
                 /\ Len(out.d.children.items) = 1
                 /\ IsElement(code)
                 /\ Tag(code) = "code"
                 /\ code.d.children = PyList(<<PyStr(token.children[1].content)>>)
                 /\ HasKey(code, "attrs") <=> token.language # ""
                 /\ HasKey(code, "attrs") =>
                       code.d.attrs = PyDict([class |-> PyStr("language-" \o token.language)])
        /\ \A e \in Tagged(dom, "pre") : ~HasKey(e, "attrs")

\* C7 witness: a fenced block with a language was rendered with the class on
\* its code element
C7_Witness ==
    /\ Returned
    /\ \E i \in TopLevel({"CodeFence"}) :
          /\ ast.children[i].language = "py"
          /\ dom.items[i].d.children.items[1].d.attrs.d.class = PyStr("language-py")

\* the optional attributes of C8 and the values that stand for "nothing"
EmptyValues == {PyNone, PyStr(""), PyList(<<>>), PyStr("language-")}

\* C8: when a Link's or Image's title, an Image's alt source or a BlockCode's
\* language is absent or empty, the key title, alt or class is absent from
\* attrs; no title, alt or class attribute has an empty, null or
\* empty-sequence value.
C8_OptionalOmitted ==
    Returned =>
        /\ \A e \in Elements(dom) :
              HasKey(e, "attrs") =>
                  \A k \in AttrKeys(e) \cap {"title", "alt", "class"} :
                      e.d.attrs.d[k] \notin EmptyValues
        /\ \A i \in TopLevel({"Paragraph"}) :
              LET spans == ast.children[i].children
                  out == dom.items[i].d.children.items
              IN (Len(spans) = 1 /\ spans[1].type \in {"Link", "Image"}) =>
                    /\ spans[1].title \in {PyNone, PyStr("")}
                          => "title" \notin AttrKeys(out[1])
                    /\ (spans[1].type = "Image" /\ spans[1].children = <<>>)
                          => "alt" \notin AttrKeys(out[1])
        /\ \A i \in TopLevel({"BlockCode", "CodeFence"}) :
              ast.children[i].language = ""
                  => ~HasKey(dom.items[i].d.children.items[1], "attrs")

\* C8 witness: a link whose title is the empty string was rendered with href only
C8_Witness ==
    /\ Returned
    /\ \E i \in TopLevel({"Paragraph"}) :
          /\ Len(ast.children[i].children) = 1
          /\ ast.children[i].children[1].type = "Link"
          /\ ast.children[i].children[1].title = PyStr("")
          /\ AttrKeys(dom.items[i].d.children.items[1]) = {"href"}

RECURSIVE Concat(_)

\* the concatenation of a sequence of sequences
Concat(seqs) == IF seqs = <<>> THEN <<>> ELSE Head(seqs) \o Concat(Tail(seqs))

RECURSIVE FlatText(_)

\* the text content of a token, in document order: the texts of its descendants
FlatText(token) ==
    CASE token.type \in {"RawText", "HTMLSpan", "HTMLBlock"} -> <<token.content>>
      [] token.type = "LineBreak" -> IF token.soft THEN <<"\n">> ELSE <<>>
      [] token.type = "Image" -> <<>>
      [] "children" \in DOMAIN token ->
            Concat([i \in DOMAIN token.children |-> FlatText(token.children[i])])
      [] OTHER -> <<>>

RECURSIVE TextLeaves(_)

\* the text leaves of a result, in order, through lists and children
TextLeaves(v) ==
    CASE v.py = "str" -> <<v.s>>
      [] v.py = "list" -> Concat([i \in DOMAIN v.items |-> TextLeaves(v.items[i])])
      [] IsElement(v) /\ HasKey(v, "children") -> TextLeaves(v.d.children)
      [] OTHER -> <<>>

\* no entry of a list is itself a list
IsFlat(v) == v.py = "list" /\ \A i \in DOMAIN v.items : v.items[i].py # "list"

Spliced(children) ==
    Concat([j \in DOMAIN children |->
                LET rendered == render(children[j])
                IN IF rendered.py = "list" THEN rendered.items ELSE <<rendered>>])

\* C19: render_inner returns the in-order concatenation of the children's
\* render results, a result that is a sequence spliced in element by element,
\* any other result as one entry, in the sibling order of the children.
C19_ChildrenFlattening ==
    Returned =>
        /\ \A i \in TopLevel({"Paragraph", "Quote"}) :
              dom.items[i].d.children = PyList(Spliced(ast.children[i].children))
        /\ \A i \in TopLevel(FallbackKinds) :
              dom.items[i] = PyList(Spliced(ast.children[i].children))

\* C19 witness: a paragraph of an escape sequence (a sequence result) followed
\* by a hard break was rendered as the escaped text, then the br element
C19_Witness ==
    /\ Returned
    /\ \E i \in TopLevel({"Paragraph"}) :
          /\ ast.children[i].children = <<EscapeSequence("*"), LineBreak(FALSE)>>
          /\ dom.items[i].d.children = PyList(<<PyStr("*"), PyDict([tag |-> PyStr("br")])>>)

\* C20: every entry of the returned top-level sequence and of every children
\* sequence is a text leaf or an element with a tag; no entry is a sequence.
C20_WellFormed ==
    Returned =>
        /\ dom.py = "list"
        /\ \A i \in DOMAIN dom.items :
              dom.items[i].py = "str" \/ IsElement(dom.items[i])
        /\ \A e \in Elements(dom) :
              \A c \in ChildEntries(e) : c.py = "str" \/ IsElement(c)

(***************************************************************************)
(* Reading a finished API call                                             *)
(***************************************************************************)
\* the method `op` of client c has returned or raised
Done(c, op) == pc = "api" /\ cl[c].pc = "returned" /\ cl[c].op = op

\* the getPage requests of the last get_page call, in order
Requests(log) == SelectSeq(log, LAMBDA x : x # "sleep")

\* C13: get_page never raises; when every attempt failed the result has
\* success = False, title = None, error = the last failure's message and as
\* content the non-empty projection of the 'Error' Markdown, whose first element
\* is the h3 'Error'; when an attempt succeeded it has success = True and the
\* title and content of the API result.
C13_FailureResult ==
    \A c \in Clients :
        Done(c, "get_page") =>
            LET s == cl[c]
                requests == Requests(s.log)
                api_result == server_get_page(page, s.return_content)
            IN /\ s.ret.py = "dict"
               /\ (\A i \in DOMAIN requests : requests[i] # "ok") =>
                      /\ s.ret.d.success = PyBool(FALSE)
                      /\ s.ret.d.title = PyNone
                      /\ requests # <<>> =>
                             s.ret.d.error = PyStr(ErrorMessage(requests[Len(requests)]))
                      /\ s.ret.d.content.py = "list"
                      /\ s.ret.d.content.items # <<>>
                      /\ s.ret.d.content.items[1] =
                             PyDict([tag |-> PyStr("h3"),
                                     children |-> PyList(<<PyStr("Error")>>)])
               /\ (\E i \in DOMAIN requests : requests[i] = "ok") =>
                      /\ s.ret.d.success = PyBool(TRUE)
                      /\ s.ret.d.title = dict_get(api_result, "title", PyNone)
                      /\ s.ret.d.content = dict_get(api_result, "content", PyList(<<>>))

\* C14: get_page issues at most max_retries requests with retry and exactly one
\* without, none after a successful one; the result's 'attempts' is the number
\* of requests issued; it sleeps only between two attempts, never after the last.
C14_RetryBound ==
    \A c \in Clients :
        cl[c].op = "get_page" =>
            LET s == cl[c]
                log == s.log
                requests == Requests(log)
            IN /\ s.retry => Len(requests) <= s.max_retries
               /\ ~s.retry => Len(requests) <= 1
               /\ \A i \in DOMAIN log : log[i] = "ok" => i = Len(log)
               /\ \A i \in DOMAIN log :
                      log[i] = "sleep" =>
                          /\ i > 1 /\ log[i - 1] # "sleep"
                          /\ i < Len(log) => log[i + 1] # "sleep"
               /\ s.pc = "returned" =>
                      /\ ~s.retry => Len(requests) = 1
                      /\ s.ret.d.attempts = PyInt(Len(requests))
                      /\ log # <<>> => log[Len(log)] # "sleep"

\* C14 witness: two failed attempts with one sleep between them, and no more
C14_Witness ==
    \E c \in Clients :
        /\ Done(c, "get_page")
        /\ cl[c].retry /\ cl[c].max_retries = 2
        /\ cl[c].log = <<"APIError", "sleep", "RequestException">>
        /\ cl[c].ret.d.attempts = PyInt(2)

\* the methods that end in edit_page
EditOps == {"edit_page_md", "append_to_front", "append_to_back"}

\* client c has sent the editPage request of an edit_page call
Edited(c) == pc = "api" /\ cl[c].pc = "returned" /\ cl[c].op \in EditOps

\* C12: append_to_back submits exactly the page's current content followed by
\* the projection of the Markdown, append_to_front exactly the projection
\* followed by the current content, whatever the outcome of the page fetch.
C12_AppendSemantics ==
    \A c \in Clients :
        LET s == cl[c]
        IN /\ Done(c, "append_to_back") =>
                  json_loads(s.sent.d.content) = list_add(s.before.content, MdToDom(s.md))
           /\ Done(c, "append_to_front") =>
                  json_loads(s.sent.d.content) = list_add(MdToDom(s.md), s.before.content)

\* C15: delete_page returns True when the editPage request succeeded and the
\* page read back has exactly the placeholder content, and False otherwise.
C15_DeleteResult ==
    \A c \in Clients :
        Done(c, "delete_page") =>
            LET s == cl[c]
                deleted == /\ s.outcome = "ok"
                           /\ s.result.d.success = PyBool(TRUE)
                           /\ s.result.d.content = expected_content
            IN s.ret = PyBool(deleted)

\* C16: an edit called without a title sends the page's current title, never
\* None or an empty one, and leaves the page's title as it was.
C16_TitleRetention ==
    \A c \in Clients :
        (Edited(c) /\ ~Truthy(cl[c].args.d.title)) =>
            /\ cl[c].sent.d.title = cl[c].before.title
            /\ Truthy(cl[c].sent.d.title)
            /\ page.title = cl[c].before.title

\* C17: a revocation that succeeds returns True with the new token in memory
\* and in the token file; one that does not returns False and leaves both as
\* they were; so the stored and the in-memory token always agree.
C17_RevokeOutcome ==
    /\ \A c \in Clients :
          Done(c, "revoke_access_token") =>
              LET s == cl[c]
              IN IF s.outcome = "ok"
                 THEN /\ s.ret = PyBool(TRUE)
                      /\ access_token = Token(issued)
                      /\ token_file = Token(issued)
                      /\ access_token # s.before.d.access_token
                 ELSE /\ s.ret = PyBool(FALSE)
                      /\ access_token = s.before.d.access_token
                      /\ token_file = s.before.d.token_file
    /\ pc = "api" => token_file = access_token

\* C18: the getViews request has month only with year, day only with year and
\* month, hour only with year, month and day; and when the caller gives all
\* four (any hour 0..23), all four are sent.
C18_ViewsDateArguments ==
    \A c \in Clients :
        Done(c, "get_views") =>
            LET sent == DOMAIN cl[c].sent.d
                args == cl[c].args.d
                dates == {"year", "month", "day", "hour"}
            IN /\ "month" \in sent => "year" \in sent
               /\ "day" \in sent => {"year", "month"} \subseteq sent
               /\ "hour" \in sent => {"year", "month", "day"} \subseteq sent
               /\ (\A k \in dates : args[k] # PyNone) =>
                      \A k \in dates : k \in sent /\ cl[c].sent.d[k] = args[k]

\* the content an append `op` of fragment `md` makes of `content`
Appended(op, md, content) ==
    IF op = "append_to_front" THEN list_add(MdToDom(md), content)
    ELSE list_add(content, MdToDom(md))

\* the append call of client c has completed successfully
AppendSucceeded(c) ==
    /\ pc = "api" /\ cl[c].pc = "returned"
    /\ cl[c].op \in {"append_to_front", "append_to_back"}
    /\ cl[c].ret = PyStr("url")

\* C21: when two clients append to the same page concurrently and both calls
\* succeed, the final content holds the original content and both fragments:
\* it is what the two appends make of the original content in one order or
\* the other, in every interleaving of their fetch and edit requests.
C21_NoLostUpdate ==
    (AppendSucceeded("c1") /\ AppendSucceeded("c2")) =>
        LET a == cl["c1"]
            b == cl["c2"]
            original == InitialPage.content
        IN page.content \in
               {Appended(b.op, b.md, Appended(a.op, a.md, original)),
                Appended(a.op, a.md, Appended(b.op, b.md, original))}

====
